---- MODULE Spec2Model ----
(***************************************************************************)
(* pomo.py: the pomodoro timer and its log analysis ("--analyse").         *)
(*                                                                         *)
(* The module-level program is a process whose position is main_pc; it    *)
(* calls report(data), a process whose position is pc.  A line of          *)
(* the log is a sequence of tokens: a whitespace character, the comment    *)
(* character, a word, or a date / time field of a timestamp.  Python dict  *)
(* objects live in heap and are named by their index, so that copy.copy    *)
(* and in-place "+=" on a shared dict are told apart.                      *)
(*                                                                         *)
(* Without --analyse the program times sessions: start_task fills          *)
(* time_queue and launch_and_monitor starts the countdown process          *)
(* (TimeConsumer, or PomoApplet with GTK), whose position is app_pc, and   *)
(* polls msg_queue.  A multiprocessing.Queue is a buffer in the putting    *)
(* process, emptied into a pipe by a feeder thread of that process: the    *)
(* reader sees the pipe only, a process that exits flushes its buffer, a   *)
(* process that is terminated loses it.  time_queue is filled before the   *)
(* countdown process exists, so it is one sequence and get(timeout=1) at   *)
(* line 335 always finds an item.  The sleeps, the notifications, the      *)
(* prompts and the break of --startbreak change no state kept here.        *)
(***************************************************************************)
EXTENDS Integers, Sequences, FiniteSets, TLC

VARIABLES
    args_analyse,   \* args.analyse, line 32
    args_message,   \* args.message, line 15
    main_pc,        \* position of the module-level program
    exit_status,    \* <<>> while the program runs, <<n>> after it ended with status n
    args_continuous,\* args.continuous, line 26
    has_gtk,        \* line 73 / line 77
    time_queue,     \* time_queue of start_task; <<>> in it is the None sentinel
    msg_buf,        \* msg_queue: what put() left for the applet's feeder thread
    msg_pipe,       \* msg_queue: what the feeder thread has written to the pipe
    alive,          \* applet_process.is_alive()
    app_pc,         \* position of the applet process
    running,        \* PomoApplet._running
    pause,          \* PomoApplet._pause
    self_time,      \* PomoApplet.time
    work_task,      \* local task of do_work_unit
    shown,          \* the labels the applet process wrote after 'Time left: '
    menu,           \* the labels set on the time menu item
    msg,            \* local msg of launch_and_monitor
    events,         \* menu activations handled by the applet of this session
    puts,           \* 'ABORT' messages put by squish in this session
    gets,           \* 'ABORT' messages the monitor took in this session
    squished,       \* "Squish!" notifications, each with a terminate()
    started,        \* calls of start_task
    finished,       \* returns of finish_task
    logged,         \* calls of write_log
    raw,            \* the lines of the log file, the argument of report
    TASK_DURATION,  \* module global, line 10 / line 42
    today,          \* datetime.datetime.today().date(), line 165
    pc,             \* position of report
    data,           \* local data
    idx,            \* number of triples of group(data, 3) consumed so far
    heap,           \* the {'nr': .., 'time': ..} dict objects
    pomos,          \* OrderedDict (task, end date) -> dict object
    total_today,    \* local total_today
    join_tasks,     \* OrderedDict task -> dict object
    all_tasks,      \* local all_tasks
    today_tasks,    \* local today_tasks
    total,          \* local total
    longest_time,   \* local longest_time
    longest_name,   \* local longest_name
    day_work,       \* local day_work
    out             \* what has been printed so far

progVars == <<args_analyse, args_message, main_pc, exit_status>>

timerVars == <<args_continuous, has_gtk, time_queue, msg_buf, msg_pipe, alive, app_pc,
               running, pause, self_time, work_task, shown, menu, msg, events, puts, gets,
               squished, started, finished, logged>>

reportVars == <<raw, today, pc, data, idx, heap, pomos, total_today, join_tasks,
                all_tasks, today_tasks, total, longest_time, longest_name, day_work, out>>

vars == <<timerVars, progVars, raw, TASK_DURATION, today, pc, data, idx, heap, pomos, total_today,
          join_tasks, all_tasks, today_tasks, total, longest_time,
          longest_name, day_work, out>>

----------------------------------------------------------------------------
(* Bounds of the model *)

MaxRecords == 3
MaxTime == 2
MaxEvents == 2
MaxSessions == 2

(* Text *)

Whitespace == {" ", "\n"}
Hash == "#"
TaskNames == {"a", "b"}
DateOf == ("D0" :> 0) @@ ("D1" :> 1) @@ ("D6" :> 6) @@ ("D7" :> 7)
TimeOf == ("T1" :> 1) @@ ("T2" :> 2)
DateFields == DOMAIN DateOf
TimeFields == DOMAIN TimeOf

Stamp(d, t) == <<d, " ", t>>

RECURSIVE lstrip(_)
lstrip(l) == IF l # <<>> /\ Head(l) \in Whitespace THEN lstrip(Tail(l)) ELSE l

RECURSIVE rstrip(_)
rstrip(l) ==
    IF l # <<>> /\ l[Len(l)] \in Whitespace
    THEN rstrip(SubSeq(l, 1, Len(l) - 1))
    ELSE l

\* str.rstrip(): leading whitespace kept
strip_trailing(l) == rstrip(l)

\* str.strip()
strip(l) == rstrip(lstrip(l))

\* str.startswith(c)
startswith(l, c) == Len(l) >= 1 /\ l[1] = c

\* [l for l in data if not l.startswith('#')]: empty lines kept
RECURSIVE SelectNotComment(_)
SelectNotComment(d) ==
    IF d = <<>> THEN <<>>
    ELSE IF ~startswith(Head(d), Hash)
         THEN <<Head(d)>> \o SelectNotComment(Tail(d))
         ELSE SelectNotComment(Tail(d))

RECURSIVE SelectLines(_)
SelectLines(d) ==
    IF d = <<>> THEN <<>>
    ELSE IF Head(d) # <<>> /\ ~startswith(Head(d), Hash)
         THEN <<Head(d)>> \o SelectLines(Tail(d))
         ELSE SelectLines(Tail(d))

\* lines 156-157
FilterLines(d) == SelectLines([i \in 1..Len(d) |-> strip(d[i])])

\* data[:L - 3]: a whole record's worth of lines dropped
TruncateThree(d) ==
    LET L == Len(d)
    IN  IF L % 3 # 0 THEN SubSeq(d, 1, L - 3) ELSE d

\* lines 159-163: the data kept
TruncateLines(d) ==
    LET L == Len(d)
    IN  IF L % 3 # 0 THEN SubSeq(d, 1, L - (L % 3)) ELSE d

\* itertools.islice(lst, i, None, n), i counted from 0
islice(lst, i, n) ==
    LET cnt == IF Len(lst) > i THEN ((Len(lst) - i - 1) \div n) + 1 ELSE 0
    IN  [k \in 1..cnt |-> lst[i + 1 + (k - 1) * n]]

Min(S) == CHOOSE x \in S : \A y \in S : x <= y

\* a window of n lines starting at every line
group_sliding(lst, n) ==
    [k \in 1..(IF Len(lst) >= n THEN Len(lst) - n + 1 ELSE 0) |-> SubSeq(lst, k, k + n - 1)]

\* group(lst, n): zip stops at the shortest slice
group(lst, n) ==
    LET slices == [i \in 1..n |-> islice(lst, i - 1, n)]
        cnt == Min({Len(slices[i]) : i \in 1..n})
    IN  [k \in 1..cnt |-> [i \in 1..n |-> slices[i][k]]]

\* load_time: strptime(s, '%Y/%m/%d %H:%M:%S'); ok = FALSE is ValueError
load_time(s) ==
    IF Len(s) = 3 /\ s[1] \in DateFields /\ s[2] = " " /\ s[3] \in TimeFields
    THEN [ok |-> TRUE, date |-> DateOf[s[1]], time |-> TimeOf[s[3]]]
    ELSE [ok |-> FALSE, date |-> 0, time |-> 0]

----------------------------------------------------------------------------
(* Ordered dicts and dict objects *)

\* position of key in an OrderedDict, 0 when absent
IndexOf(od, key) ==
    IF \E i \in 1..Len(od) : od[i].key = key
    THEN CHOOSE i \in 1..Len(od) : od[i].key = key
    ELSE 0

HasKey(od, key) == IndexOf(od, key) # 0

RefOf(od, key) == od[IndexOf(od, key)].ref

\* join_tasks[name] = pomos[p]: the same object, no copy
copy_alias(h, ref) == [heap |-> h, ref |-> ref]

\* copy.copy(d) of a dict whose values are immutable: a new object
copy_copy(h, ref) == [heap |-> Append(h, h[ref]), ref |-> Len(h) + 1]

\* pomos[key] set to a new dict for every record, not only when absent
PomosAddReset(h, p, key, delta) ==
    LET fresh == ~HasKey(p, key)
        h1 == Append(h, [nr |-> 1, time |-> delta])
    IN  [heap  |-> h1,
         pomos |-> IF fresh THEN Append(p, [key |-> key, ref |-> Len(h1)])
                   ELSE [p EXCEPT ![IndexOf(p, key)].ref = Len(h1)]]

\* the time of a group set by its first record only
PomosAddTimeOnce(h, p, key, delta) ==
    LET fresh == ~HasKey(p, key)
        h1 == IF fresh THEN Append(h, [nr |-> 0, time |-> delta]) ELSE h
        p1 == IF fresh THEN Append(p, [key |-> key, ref |-> Len(h1)]) ELSE p
        r  == RefOf(p1, key)
    IN  [heap  |-> [h1 EXCEPT ![r].nr = h1[r].nr + 1],
         pomos |-> p1]

\* lines 175-180: pomos[key] created when absent, then counted
PomosAdd(h, p, key, delta) ==
    LET fresh == ~HasKey(p, key)
        h1 == IF fresh THEN Append(h, [nr |-> 0, time |-> 0]) ELSE h
        p1 == IF fresh THEN Append(p, [key |-> key, ref |-> Len(h1)]) ELSE p
        r  == RefOf(p1, key)
    IN  [heap  |-> [h1 EXCEPT ![r] = [nr |-> h1[r].nr + 1,
                                      time |-> h1[r].time + delta]],
         pomos |-> p1]

\* a record whose timestamp does not parse is skipped
LoadStepSkipBad(st, triple, dur, td) ==
    LET start == load_time(triple[2])
        end   == load_time(triple[3])
    IN  IF ~start.ok \/ ~end.ok
        THEN st
        ELSE LET r == PomosAdd(st.heap, st.pomos, <<triple[1], end.date>>, dur)
             IN  [ok |-> TRUE, heap |-> r.heap, pomos |-> r.pomos,
                  total_today |-> IF end.date = td
                                  THEN st.total_today + dur
                                  ELSE st.total_today]

\* total_today counts the records that start today
LoadStepStartToday(st, triple, dur, td) ==
    LET start == load_time(triple[2])
        end   == load_time(triple[3])
    IN  IF ~start.ok \/ ~end.ok
        THEN [st EXCEPT !.ok = FALSE]
        ELSE LET r == PomosAdd(st.heap, st.pomos, <<triple[1], end.date>>, dur)
             IN  [ok |-> TRUE, heap |-> r.heap, pomos |-> r.pomos,
                  total_today |-> IF start.date = td
                                  THEN st.total_today + dur
                                  ELSE st.total_today]

\* delta = end - start, in seconds
LoadStepElapsed(st, triple, dur, td) ==
    LET start == load_time(triple[2])
        end   == load_time(triple[3])
        delta == (end.date - start.date) * 86400 + (end.time - start.time)
    IN  IF ~start.ok \/ ~end.ok
        THEN [st EXCEPT !.ok = FALSE]
        ELSE LET r == PomosAdd(st.heap, st.pomos, <<triple[1], end.date>>, delta)
             IN  [ok |-> TRUE, heap |-> r.heap, pomos |-> r.pomos,
                  total_today |-> IF end.date = td
                                  THEN st.total_today + delta
                                  ELSE st.total_today]

\* lines 171-183: the body of the loop over group(data, 3)
LoadStep(st, triple, dur, td) ==
    LET start == load_time(triple[2])
        end   == load_time(triple[3])
    IN  IF ~start.ok \/ ~end.ok
        THEN [st EXCEPT !.ok = FALSE]
        ELSE LET r == PomosAdd(st.heap, st.pomos, <<triple[1], end.date>>, dur)
             IN  [ok |-> TRUE, heap |-> r.heap, pomos |-> r.pomos,
                  total_today |-> IF end.date = td
                                  THEN st.total_today + dur
                                  ELSE st.total_today]

\* lines 168-169
LoadStart == [ok |-> TRUE, heap |-> <<>>, pomos |-> <<>>, total_today |-> 0]

\* lines 170-183: the whole loop, from triple k on
RECURSIVE LoadFrom(_, _, _, _, _)
LoadFrom(st, triples, k, dur, td) ==
    IF k > Len(triples) \/ ~st.ok THEN st
    ELSE LoadFrom(LoadStep(st, triples[k], dur, td), triples, k + 1, dur, td)

\* a later date of a task replaces what was folded so far
JoinStepOverwrite(st, entry) ==
    LET name == entry.key[1]
        c == copy_copy(st.heap, entry.ref)
    IN  IF ~HasKey(st.join, name)
        THEN [heap |-> c.heap,
              join |-> Append(st.join, [key |-> name, ref |-> c.ref])]
        ELSE [heap |-> c.heap,
              join |-> [st.join EXCEPT ![IndexOf(st.join, name)].ref = c.ref]]

\* lines 189-194: one DateTaskGroup folded into join_tasks
JoinStep(st, entry) ==
    LET name == entry.key[1]
    IN  IF ~HasKey(st.join, name)
        THEN LET c == copy_copy(st.heap, entry.ref)
             IN  [heap |-> c.heap,
                  join |-> Append(st.join, [key |-> name, ref |-> c.ref])]
        ELSE LET r == RefOf(st.join, name)
                 h == st.heap
             IN  [heap |-> [h EXCEPT ![r] =
                               [nr   |-> h[r].nr + h[entry.ref].nr,
                                time |-> h[r].time + h[entry.ref].time]],
                  join |-> st.join]

\* lines 187-194
RECURSIVE JoinFrom(_, _, _)
JoinFrom(st, p, k) ==
    IF k > Len(p) THEN st ELSE JoinFrom(JoinStep(st, p[k]), p, k + 1)

JoinAll(h, p) == JoinFrom([heap |-> h, join |-> <<>>], p, 1)

\* line 196
AllTasks(h, j) == [i \in 1..Len(j) |-> <<j[i].key, h[j[i].ref].nr>>]

\* lines 197-198
RECURSIVE TodayTasksFrom(_, _, _, _)
TodayTasksFrom(h, p, td, k) ==
    IF k > Len(p) THEN <<>>
    ELSE IF p[k].key[2] = td
         THEN <<<<p[k].key[1], h[RefOf(p, p[k].key)].nr>>>>
              \o TodayTasksFrom(h, p, td, k + 1)
         ELSE TodayTasksFrom(h, p, td, k + 1)

TodayTasks(h, p, td) == TodayTasksFrom(h, p, td, 1)

\* line 201
RECURSIVE SumNr(_)
SumNr(tasks) == IF tasks = <<>> THEN 0 ELSE Head(tasks)[2] + SumNr(Tail(tasks))

\* lines 200-208: the lines print_tasks writes
print_tasks(tasks, header) ==
    <<[kind |-> "header", text |-> header, total |-> SumNr(tasks)],
      [kind |-> "rule"]>>
    \o [i \in 1..Len(tasks) |->
          [kind |-> "task", name |-> tasks[i][1], nr |-> tasks[i][2]]]
    \o <<[kind |-> "blank"]>>

NoTask == "No task longer than 0 minutes"

\* duration >= longest_time
LongerOrEqual(duration, longest) == duration >= longest

\* line 220
Longer(duration, longest) == duration > longest

\* lines 213-222
RECURSIVE LongestFrom(_, _, _, _)
LongestFrom(h, j, k, acc) ==
    IF k > Len(j) THEN acc
    ELSE LET duration == h[j[k].ref].time
             bigger == Longer(duration, acc.longest_time)
         IN  LongestFrom(h, j, k + 1,
                 [total        |-> acc.total + duration,
                  longest_time |-> IF bigger THEN duration ELSE acc.longest_time,
                  longest_name |-> IF bigger THEN j[k].key ELSE acc.longest_name])

Longest(h, j) ==
    LongestFrom(h, j, 1, [total |-> 0, longest_time |-> 0, longest_name |-> NoTask])

\* dict.get(k, 0)
Get(dw, k) == IF k \in DOMAIN dw THEN dw[k] ELSE 0

\* lines 226-230
RECURSIVE DayWorkFrom(_, _, _, _, _)
DayWorkFrom(h, p, td, k, dw) ==
    IF k > Len(p) THEN dw
    ELSE LET days_ago == td - p[k].key[2]
             nr == h[p[k].ref].nr
         IN  IF days_ago <= 5
             THEN DayWorkFrom(h, p, td, k + 1,
                      [d \in DOMAIN dw \cup {days_ago} |->
                          IF d = days_ago THEN Get(dw, d) + nr ELSE dw[d]])
             ELSE DayWorkFrom(h, p, td, k + 1, dw)

DayWork(h, p, td) == DayWorkFrom(h, p, td, 1, <<>>)

\* i from 0 up to 5: today first
RECURSIVE DayLinesNewestFirst(_, _, _)
DayLinesNewestFirst(dw, td, i) ==
    IF i < 0 THEN <<>>
    ELSE DayLinesNewestFirst(dw, td, i - 1)
         \o (IF i \in DOMAIN dw
             THEN <<[kind |-> "day", date |-> td - i, nr |-> dw[i]]>>
             ELSE <<>>)

\* lines 232-234, i from 5 down to 0
RECURSIVE DayLinesFrom(_, _, _)
DayLinesFrom(dw, td, i) ==
    IF i < 0 THEN <<>>
    ELSE (IF i \in DOMAIN dw
          THEN <<[kind |-> "day", date |-> td - i, nr |-> dw[i]]>>
          ELSE <<>>)
         \o DayLinesFrom(dw, td, i - 1)

DayLines(dw, td) == DayLinesFrom(dw, td, 5)

----------------------------------------------------------------------------
(* report as one function of its inputs *)

Failure == [err |-> TRUE]

\* lines 155-241: the aggregates report computes, or Failure when it raises
Report(lines, dur, td) ==
    LET d  == TruncateLines(FilterLines(lines))
        ld == LoadFrom(LoadStart, group(d, 3), 1, dur, td)
    IN  IF ~ld.ok THEN Failure
        ELSE LET jn == JoinAll(ld.heap, ld.pomos)
                 lg == Longest(jn.heap, jn.join)
             IN  [err         |-> FALSE,
                  allTasks    |-> AllTasks(jn.heap, jn.join),
                  todayTasks  |-> TodayTasks(jn.heap, ld.pomos, td),
                  totalToday  |-> ld.total_today,
                  grandTotal  |-> lg.total,
                  longest     |-> <<lg.longest_name, lg.longest_time>>,
                  last6Days   |-> DayWork(jn.heap, ld.pomos, td)]

----------------------------------------------------------------------------
(* The inputs explored *)

TASK_DURATION_DEFAULT == 1500
Durations == {-1, 0, TASK_DURATION_DEFAULT}
Todays == {6, 7}

SeqsUpTo(S, n) == UNION {[1..k -> S] : k \in 0..n}

RECURSIVE Flatten(_)
Flatten(ss) == IF ss = <<>> THEN <<>> ELSE Head(ss) \o Flatten(Tail(ss))

\* a line of the file as readlines() gives it
Line(text) == text \o <<"\n">>

\* the three lines of one record of the log
RecordLines(task, start, end) == <<Line(<<task>>), Line(start), Line(end)>>

\* records that start and end on the same day
DayRecords ==
    {RecordLines(t, Stamp(d, "T1"), Stamp(d, "T2")) : t \in TaskNames, d \in DateFields}

\* records of one task that start on day D0 and end on D6 or D7
LongRecords == {RecordLines("a", Stamp("D0", "T2"), Stamp(d, "T1")) : d \in {"D6", "D7"}}

FilesOf(R, n) == {Flatten(rs) : rs \in SeqsUpTo(R, n)}

\* whole records only
CleanInputs == FilesOf(DayRecords, MaxRecords) \cup FilesOf(LongRecords, MaxRecords)

\* a partial record at the end
Tails == {<<Line(<<"a">>)>>, <<Line(<<"b">>), Line(<<"x">>)>>,
          <<Line(<<"a">>), Line(Stamp("D6", "T1"))>>}
TailInputs == {f \o t : f \in FilesOf(DayRecords, MaxRecords - 1), t \in Tails}

\* one timestamp replaced by text that is no timestamp
BadInputs ==
    UNION {{[f EXCEPT ![i] = Line(<<"x">>)] : i \in {j \in 1..Len(f) : j % 3 # 1}} :
              f \in FilesOf(LongRecords, MaxRecords)}

Fillers == {<<"\n">>, <<" ", "\n">>, <<Hash, "\n">>, <<" ", Hash, "a", "\n">>,
            <<Hash, " ", "D6", " ", "T1", "\n">>}

InsertAt(f, i, l) == SubSeq(f, 1, i) \o <<l>> \o SubSeq(f, i + 1, Len(f))

Insert1(F, ls) == UNION {{InsertAt(f, i, l) : i \in 0..Len(f), l \in ls} : f \in F}

\* blank and comment lines inserted, lines padded with blanks
FillerInputs ==
    LET r1 == RecordLines("a", Stamp("D0", "T1"), Stamp("D6", "T2"))
        r2 == RecordLines("b", Stamp("D1", "T1"), Stamp("D1", "T2"))
        base == {r1, r1 \o r2, r2 \o <<Line(<<"a">>)>>}
        pad(f) == [i \in 1..Len(f) |-> <<" ">> \o f[i]]
    IN  Insert1(Insert1(base, Fillers), {<<"\n">>})
        \cup {pad(f) : f \in FilesOf(DayRecords, 1)}

\* nothing but blank lines and comments
EmptyInputs == SeqsUpTo({<<"\n">>, <<Hash, "\n">>, <<" ", Hash, "a", "\n">>}, 3)

Inputs == CleanInputs \cup TailInputs \cup BadInputs \cup FillerInputs \cup EmptyInputs

----------------------------------------------------------------------------
(* report, step by step *)

\* args.analyse / args.message when the option is not given
None == "<None>"

\* the log file that exists, and paths that open() cannot open
LogPath == "pomo.log"
MissingPaths == {"missing.log", "nodir/pomo.log"}
Messages == {None, "task"}

\* --analyse on the log file
InitAnalyse ==
    /\ args_analyse = LogPath
    /\ \/ args_message = None /\ raw \in Inputs
       \/ args_message = "task" /\ raw \in FilesOf(LongRecords, 1)
    /\ TASK_DURATION \in Durations
    /\ today \in Todays

\* --analyse on a path that cannot be opened
InitMissing ==
    /\ args_analyse \in MissingPaths
    /\ args_message \in Messages
    /\ raw = <<>>
    /\ TASK_DURATION \in Durations
    /\ today \in Todays

\* the durations of the timed sessions explored
TimerDurations == (-1)..MaxTime

\* no --analyse: a task to time, or nothing to do
InitTimer ==
    /\ args_analyse = None
    /\ args_message \in Messages
    /\ raw = <<>>
    /\ TASK_DURATION \in TimerDurations
    /\ today \in Todays

\* PomoApplet.__init__, line 278
InitialTime == <<0, 0>>

Init ==
    /\ \/ (InitAnalyse \/ InitMissing) /\ args_continuous = FALSE /\ has_gtk = FALSE
       \/ InitTimer /\ args_continuous \in BOOLEAN /\ has_gtk \in BOOLEAN
    /\ time_queue = <<>>
    /\ msg_buf = <<>>
    /\ msg_pipe = <<>>
    /\ alive = FALSE
    /\ app_pc = "none"
    /\ running = TRUE
    /\ pause = FALSE
    /\ self_time = InitialTime
    /\ work_task = <<>>
    /\ shown = <<>>
    /\ menu = <<>>
    /\ msg = None
    /\ events = 0
    /\ puts = 0
    /\ gets = 0
    /\ squished = 0
    /\ started = 0
    /\ finished = 0
    /\ logged = 0
    /\ main_pc = "args"
    /\ exit_status = <<>>
    /\ pc = "idle"
    /\ data = <<>>
    /\ idx = 0
    /\ heap = <<>>
    /\ pomos = <<>>
    /\ total_today = 0
    /\ join_tasks = <<>>
    /\ all_tasks = <<>>
    /\ today_tasks = <<>>
    /\ total = 0
    /\ longest_time = 0
    /\ longest_name = ""
    /\ day_work = <<>>
    /\ out = <<>>

\* lines 36-39: neither a task nor a log
Usage ==
    /\ main_pc = "args"
    /\ args_message = None /\ args_analyse = None
    /\ out' = out \o <<[kind |-> "usage"]>>
    /\ main_pc' = "exited"
    /\ exit_status' = <<-1>>
    /\ UNCHANGED <<timerVars, args_analyse, args_message, raw, TASK_DURATION, today, pc, data,
                   idx, heap, pomos, total_today, join_tasks, all_tasks, today_tasks,
                   total, longest_time, longest_name, day_work>>

\* lines 244-247: the file opens and report is called on its lines
Analyse ==
    /\ main_pc = "args"
    /\ args_analyse # None
    /\ args_analyse = LogPath
    /\ main_pc' = "report"
    /\ pc' = "filter"
    /\ UNCHANGED <<timerVars, args_analyse, args_message, exit_status, raw, TASK_DURATION, today,
                   data, idx, heap, pomos, total_today, join_tasks, all_tasks,
                   today_tasks, total, longest_time, longest_name, day_work, out>>

\* lines 249-251: open raises IOError
CannotLoad ==
    /\ main_pc = "args"
    /\ args_analyse # None
    /\ args_analyse # LogPath
    /\ out' = out \o <<[kind |-> "cannot_load", path |-> args_analyse]>>
    /\ main_pc' = "exited"
    /\ exit_status' = <<-1>>
    /\ UNCHANGED <<timerVars, args_analyse, args_message, raw, TASK_DURATION, today, pc, data,
                   idx, heap, pomos, total_today, join_tasks, all_tasks, today_tasks,
                   total, longest_time, longest_name, day_work>>

\* report returned and the program goes on to the timer
AnalyseDoneFallThrough ==
    /\ main_pc = "report"
    /\ pc = "done"
    /\ main_pc' = "main"
    /\ UNCHANGED <<timerVars, args_analyse, args_message, exit_status, raw, TASK_DURATION,
                   today, pc, data, idx, heap, pomos, total_today, join_tasks, all_tasks,
                   today_tasks, total, longest_time, longest_name, day_work, out>>

\* line 253: report returned
AnalyseDone ==
    /\ main_pc = "report"
    /\ pc = "done"
    /\ main_pc' = "exited"
    /\ exit_status' = <<0>>
    /\ UNCHANGED <<timerVars, args_analyse, args_message, raw, TASK_DURATION, today, pc, data,
                   idx, heap, pomos, total_today, join_tasks, all_tasks, today_tasks,
                   total, longest_time, longest_name, day_work, out>>

\* lines 247-249: the ValueError of report is no IOError; the interpreter
\* ends the program with status 1
Uncaught ==
    /\ main_pc = "report"
    /\ pc = "raised"
    /\ main_pc' = "exited"
    /\ exit_status' = <<1>>
    /\ UNCHANGED <<timerVars, args_analyse, args_message, raw, TASK_DURATION, today, pc, data,
                   idx, heap, pomos, total_today, join_tasks, all_tasks, today_tasks,
                   total, longest_time, longest_name, day_work, out>>

\* lines 244, 458: no --analyse, the timer runs
SkipAnalyse ==
    /\ main_pc = "args"
    /\ args_message # None /\ args_analyse = None
    /\ main_pc' = "main"
    /\ UNCHANGED <<timerVars, args_analyse, args_message, exit_status, raw, TASK_DURATION, today,
                   pc, data, idx, heap, pomos, total_today, join_tasks, all_tasks,
                   today_tasks, total, longest_time, longest_name, day_work, out>>

\* lines 156-157
Filter ==
    /\ pc = "filter"
    /\ data' = FilterLines(raw)
    /\ pc' = "truncate"
    /\ UNCHANGED <<timerVars, progVars, raw, TASK_DURATION, today, idx, heap, pomos, total_today,
                   join_tasks, all_tasks, today_tasks, total, longest_time,
                   longest_name, day_work, out>>

\* lines 159-169
Truncate ==
    /\ pc = "truncate"
    /\ data' = TruncateLines(data)
    /\ out' = IF Len(data) % 3 # 0
              THEN out \o <<[kind |-> "warning"], [kind |-> "warning"]>>
              ELSE out
    /\ heap' = LoadStart.heap
    /\ pomos' = LoadStart.pomos
    /\ total_today' = LoadStart.total_today
    /\ idx' = 0
    /\ pc' = "load"
    /\ UNCHANGED <<timerVars, progVars, raw, TASK_DURATION, today, join_tasks, all_tasks, today_tasks,
                   total, longest_time, longest_name, day_work>>

LoadState == [ok |-> TRUE, heap |-> heap, pomos |-> pomos, total_today |-> total_today]

NextTriple == group(data, 3)[idx + 1]

\* lines 170-183: one record read and counted
LoadRecord ==
    /\ pc = "load"
    /\ idx < Len(group(data, 3))
    /\ LET st == LoadStep(LoadState, NextTriple, TASK_DURATION, today)
       IN  /\ st.ok
           /\ heap' = st.heap
           /\ pomos' = st.pomos
           /\ total_today' = st.total_today
    /\ idx' = idx + 1
    /\ UNCHANGED <<timerVars, progVars, raw, TASK_DURATION, today, pc, data, join_tasks, all_tasks,
                   today_tasks, total, longest_time, longest_name, day_work, out>>

\* lines 171-172: load_time raises ValueError, which report does not catch
RaiseValueError ==
    /\ pc = "load"
    /\ idx < Len(group(data, 3))
    /\ ~LoadStep(LoadState, NextTriple, TASK_DURATION, today).ok
    /\ pc' = "raised"
    /\ UNCHANGED <<timerVars, progVars, raw, TASK_DURATION, today, data, idx, heap, pomos, total_today,
                   join_tasks, all_tasks, today_tasks, total, longest_time,
                   longest_name, day_work, out>>

\* lines 186-198
JoinTasks ==
    /\ pc = "load"
    /\ idx = Len(group(data, 3))
    /\ LET jn == JoinAll(heap, pomos)
       IN  /\ heap' = jn.heap
           /\ join_tasks' = jn.join
           /\ all_tasks' = AllTasks(jn.heap, jn.join)
           /\ today_tasks' = TodayTasks(jn.heap, pomos, today)
    /\ pc' = "print_tasks"
    /\ UNCHANGED <<timerVars, progVars, raw, TASK_DURATION, today, data, idx, pomos, total_today,
                   total, longest_time, longest_name, day_work, out>>

\* lines 210-211
PrintTasks ==
    /\ pc = "print_tasks"
    /\ out' = out \o print_tasks(all_tasks, "Summary: all tasks")
                  \o print_tasks(today_tasks, "Summary: today's tasks")
    /\ pc' = "longest"
    /\ UNCHANGED <<timerVars, progVars, raw, TASK_DURATION, today, data, idx, heap, pomos, total_today,
                   join_tasks, all_tasks, today_tasks, total, longest_time,
                   longest_name, day_work>>

\* lines 213-222
FindLongest ==
    /\ pc = "longest"
    /\ LET lg == Longest(heap, join_tasks)
       IN  /\ total' = lg.total
           /\ longest_time' = lg.longest_time
           /\ longest_name' = lg.longest_name
    /\ pc' = "last_days"
    /\ UNCHANGED <<timerVars, progVars, raw, TASK_DURATION, today, data, idx, heap, pomos, total_today,
                   join_tasks, all_tasks, today_tasks, day_work, out>>

\* lines 224-234
LastDays ==
    /\ pc = "last_days"
    /\ day_work' = DayWork(heap, pomos, today)
    /\ out' = out \o <<[kind |-> "title", text |-> "Last 5 days"], [kind |-> "rule"]>>
                  \o DayLines(day_work', today)
    /\ pc' = "time_summary"
    /\ UNCHANGED <<timerVars, progVars, raw, TASK_DURATION, today, data, idx, heap, pomos, total_today,
                   join_tasks, all_tasks, today_tasks, total, longest_time,
                   longest_name>>

\* lines 237-241
TimeSummary ==
    /\ pc = "time_summary"
    /\ out' = out \o <<[kind |-> "title", text |-> "Time summary"],
                       [kind |-> "rule"],
                       [kind |-> "total_today", time |-> total_today],
                       [kind |-> "total", time |-> total],
                       [kind |-> "longest", name |-> longest_name,
                        time |-> longest_time]>>
    /\ pc' = "done"
    /\ UNCHANGED <<timerVars, progVars, raw, TASK_DURATION, today, data, idx, heap, pomos, total_today,
                   join_tasks, all_tasks, today_tasks, total, longest_time,
                   longest_name, day_work>>

----------------------------------------------------------------------------
(* The timer: the main process, the applet process and its feeder thread *)

\* str(datetime.timedelta(seconds=i)): hours, minutes, seconds
Label(i) == <<i \div 3600, (i \div 60) % 60, i % 60>>

\* the None that ends time_queue
Sentinel == <<>>

\* lines 402-406: what start_task puts on time_queue
RECURSIVE Countdown(_)
Countdown(i) == IF i < 0 THEN <<Sentinel>> ELSE <<Label(i)>> \o Countdown(i - 1)

\* the variables of the report and of the command line, which the timer leaves alone
idle == <<args_analyse, args_message, args_continuous, has_gtk, exit_status,
          TASK_DURATION, reportVars>>

appletVars == <<app_pc, running, pause, self_time, work_task, shown, menu, events>>

countVars == <<started, finished, logged>>

\* lines 398-416 and 370-382 (with the break and the prompt of a restart, lines
\* 459-464, 468-470, 410-412): the queues are filled and the applet process started
StartTask ==
    /\ main_pc = "main"
    /\ started < MaxSessions
    /\ time_queue' = Countdown(TASK_DURATION - 1)
    /\ msg_buf' = <<>>
    /\ msg_pipe' = <<>>
    /\ alive' = TRUE
    /\ app_pc' = IF has_gtk THEN "setup" ELSE "consume"
    /\ running' = TRUE
    /\ pause' = FALSE
    /\ self_time' = InitialTime
    /\ work_task' = Sentinel
    /\ shown' = <<>>
    /\ menu' = <<>>
    /\ msg' = None
    /\ events' = 0
    /\ puts' = 0
    /\ gets' = 0
    /\ squished' = 0
    /\ started' = started + 1
    /\ main_pc' = "monitor"
    /\ UNCHANGED <<idle, finished, logged>>

\* line 384: the loop of launch_and_monitor goes on, or it returns (lines 396, 417)
MonitorCheck ==
    /\ main_pc = "monitor"
    /\ main_pc' = IF alive \/ msg_pipe # <<>> THEN "get" ELSE "finish"
    /\ UNCHANGED <<idle, time_queue, msg_buf, msg_pipe, alive, appletVars, msg, puts,
                   gets, squished, countVars>>

\* lines 385-389: get_nowait takes what is in the pipe, or finds nothing
MonitorGet ==
    /\ main_pc = "get"
    /\ IF msg_pipe # <<>>
       THEN /\ msg' = Head(msg_pipe)
            /\ msg_pipe' = Tail(msg_pipe)
            /\ gets' = gets + 1
       ELSE /\ msg' = None
            /\ UNCHANGED <<msg_pipe, gets>>
    /\ main_pc' = "got"
    /\ UNCHANGED <<idle, time_queue, msg_buf, alive, appletVars, puts, squished,
                   countVars>>

\* lines 391-394: on 'ABORT' the notification, then terminate(), which kills the
\* applet process with whatever its feeder thread has not yet written
MonitorAct ==
    /\ main_pc = "got"
    /\ IF msg = "ABORT"
       THEN /\ squished' = squished + 1
            /\ alive' = FALSE
            /\ msg_buf' = <<>>
            /\ app_pc' = IF alive THEN "dead" ELSE app_pc
       ELSE UNCHANGED <<squished, alive, msg_buf, app_pc>>
    /\ main_pc' = "monitor"
    /\ UNCHANGED <<idle, time_queue, msg_pipe, running, pause, self_time, work_task,
                   shown, menu, events, msg, puts, gets, countVars>>

\* lines 419-426, called at lines 465 and 471
FinishTask ==
    /\ main_pc = "finish"
    /\ finished' = finished + 1
    /\ main_pc' = "log"
    /\ UNCHANGED <<idle, time_queue, msg_buf, msg_pipe, alive, appletVars, msg, puts,
                   gets, squished, started, logged>>

\* a session ended by 'ABORT' leaves no line in the log
WriteLogSkipAborted ==
    /\ main_pc = "log"
    /\ logged' = IF squished > 0 THEN logged ELSE logged + 1
    /\ IF args_continuous
       THEN main_pc' = "main" /\ UNCHANGED exit_status
       ELSE main_pc' = "exited" /\ exit_status' = <<0>>
    /\ UNCHANGED <<args_analyse, args_message, args_continuous, has_gtk, TASK_DURATION,
                   reportVars, time_queue, msg_buf, msg_pipe, alive, appletVars, msg,
                   puts, gets, squished, started, finished>>

\* lines 428-456, called at lines 466 and 472; then the loop of line 467, or the end
WriteLog ==
    /\ main_pc = "log"
    /\ logged' = logged + 1
    /\ IF args_continuous
       THEN main_pc' = "main" /\ UNCHANGED exit_status
       ELSE main_pc' = "exited" /\ exit_status' = <<0>>
    /\ UNCHANGED <<args_analyse, args_message, args_continuous, has_gtk, TASK_DURATION,
                   reportVars, time_queue, msg_buf, msg_pipe, alive, appletVars, msg,
                   puts, gets, squished, started, finished>>

\* the feeder thread of the applet's msg_queue writes a message to the pipe
FeederSend ==
    /\ alive
    /\ msg_buf # <<>>
    /\ msg_pipe' = Append(msg_pipe, Head(msg_buf))
    /\ msg_buf' = Tail(msg_buf)
    /\ UNCHANGED <<idle, main_pc, time_queue, alive, appletVars, msg, puts, gets,
                   squished, countVars>>

\* lines 262-269: TimeConsumer.run takes a label and writes it
ConsumerShow ==
    /\ alive
    /\ app_pc = "consume"
    /\ time_queue # <<>>
    /\ Head(time_queue) # Sentinel
    /\ shown' = Append(shown, Head(time_queue))
    /\ time_queue' = Tail(time_queue)
    /\ UNCHANGED <<idle, main_pc, msg_buf, msg_pipe, alive, app_pc, running, pause,
                   self_time, work_task, menu, events, msg, puts, gets, squished,
                   countVars>>

\* lines 263-265, 271: TimeConsumer.run takes the sentinel and the process ends
ConsumerEnd ==
    /\ alive
    /\ app_pc = "consume"
    /\ time_queue # <<>>
    /\ Head(time_queue) = Sentinel
    /\ time_queue' = Tail(time_queue)
    /\ app_pc' = "ended"
    /\ alive' = FALSE
    /\ UNCHANGED <<idle, main_pc, msg_buf, msg_pipe, running, pause, self_time,
                   work_task, shown, menu, events, msg, puts, gets, squished, countVars>>

\* lines 287-315: the menu is built and update_label sets the first label
AppletSetup ==
    /\ alive
    /\ app_pc = "setup"
    /\ menu' = Append(menu, self_time)
    /\ app_pc' = "flush_setup"
    /\ UNCHANGED <<idle, main_pc, time_queue, msg_buf, msg_pipe, alive, running, pause,
                   self_time, work_task, shown, events, msg, puts, gets, squished,
                   countVars>>

\* where flush_events runs: lines 351 (from 315), 319, 344, 351 (from 347)
FlushPoints == {"flush_setup", "flush", "tick", "flush_label"}

\* lines 353-355, 360-361: 'Squish' activated while flush_events runs
AppletSquish ==
    /\ alive
    /\ app_pc \in FlushPoints
    /\ events < MaxEvents
    /\ events' = events + 1
    /\ msg_buf' = Append(msg_buf, "ABORT")
    /\ puts' = puts + 1
    /\ running' = FALSE
    /\ UNCHANGED <<idle, main_pc, time_queue, msg_pipe, alive, app_pc, pause, self_time,
                   work_task, shown, menu, msg, gets, squished, countVars>>

\* lines 357-358: 'Pause/Unpause' activated while flush_events runs
AppletPause ==
    /\ alive
    /\ app_pc \in FlushPoints
    /\ events < MaxEvents
    /\ events' = events + 1
    /\ pause' = ~pause
    /\ UNCHANGED <<idle, main_pc, time_queue, msg_buf, msg_pipe, alive, app_pc, running,
                   self_time, work_task, shown, menu, msg, puts, gets, squished,
                   countVars>>

\* line 317: the loop goes on, or run returns and the process ends, its feeder
\* thread joined
AppletCheck ==
    /\ alive
    /\ app_pc = "check"
    /\ IF running
       THEN /\ app_pc' = "flush"
            /\ UNCHANGED <<alive, msg_buf, msg_pipe>>
       ELSE /\ app_pc' = "ended"
            /\ alive' = FALSE
            /\ msg_pipe' = msg_pipe \o msg_buf
            /\ msg_buf' = <<>>
    /\ UNCHANGED <<idle, main_pc, time_queue, running, pause, self_time, work_task,
                   shown, menu, events, msg, puts, gets, squished, countVars>>

\* flush_events returns: lines 315-317, 319-328, 347 and 330
AppletFlushed ==
    /\ alive
    /\ app_pc \in {"flush_setup", "flush", "flush_label"}
    /\ app_pc' = CASE app_pc = "flush_setup" -> "check"
                   [] app_pc = "flush" -> IF pause THEN "check" ELSE "work"
                   [] app_pc = "flush_label" -> "write"
    /\ UNCHANGED <<idle, main_pc, time_queue, msg_buf, msg_pipe, alive, running, pause,
                   self_time, work_task, shown, menu, events, msg, puts, gets, squished,
                   countVars>>

\* lines 335-338: do_work_unit takes the next item; the sentinel aborts
AppletWork ==
    /\ alive
    /\ app_pc = "work"
    /\ time_queue # <<>>
    /\ work_task' = Head(time_queue)
    /\ time_queue' = Tail(time_queue)
    /\ IF Head(time_queue) = Sentinel
       THEN running' = FALSE /\ app_pc' = "write"
       ELSE UNCHANGED running /\ app_pc' = "tick"
    /\ UNCHANGED <<idle, main_pc, msg_buf, msg_pipe, alive, pause, self_time, shown,
                   menu, events, msg, puts, gets, squished, countVars>>

\* lines 342-350: the second is over, the label becomes self.time and the menu label
AppletTick ==
    /\ alive
    /\ app_pc = "tick"
    /\ self_time' = work_task
    /\ menu' = Append(menu, work_task)
    /\ app_pc' = "flush_label"
    /\ UNCHANGED <<idle, main_pc, time_queue, msg_buf, msg_pipe, alive, running, pause,
                   work_task, shown, events, msg, puts, gets, squished, countVars>>

\* lines 330-331: 'Time left: ' + self.time is written
AppletWrite ==
    /\ alive
    /\ app_pc = "write"
    /\ shown' = Append(shown, self_time)
    /\ app_pc' = "check"
    /\ UNCHANGED <<idle, main_pc, time_queue, msg_buf, msg_pipe, alive, running, pause,
                   self_time, work_task, menu, events, msg, puts, gets, squished,
                   countVars>>

Next ==
    \/ StartTask
    \/ MonitorCheck
    \/ MonitorGet
    \/ MonitorAct
    \/ FinishTask
    \/ WriteLog
    \/ FeederSend
    \/ ConsumerShow
    \/ ConsumerEnd
    \/ AppletSetup
    \/ AppletSquish
    \/ AppletPause
    \/ AppletCheck
    \/ AppletFlushed
    \/ AppletWork
    \/ AppletTick
    \/ AppletWrite
    \/ Usage
    \/ Analyse
    \/ CannotLoad
    \/ AnalyseDone
    \/ Uncaught
    \/ SkipAnalyse
    \/ Filter
    \/ Truncate
    \/ LoadRecord
    \/ RaiseValueError
    \/ JoinTasks
    \/ PrintTasks
    \/ FindLongest
    \/ LastDays
    \/ TimeSummary

Spec == Init /\ [][Next]_vars

----------------------------------------------------------------------------
(* The log as the format defines it, read off the raw lines *)

IsBlankLine(l) == \A i \in 1..Len(l) : l[i] \in Whitespace

IsCommentLine(l) ==
    \E i \in 1..Len(l) : l[i] = Hash /\ \A j \in 1..(i - 1) : l[j] \in Whitespace

Ignored(l) == IsBlankLine(l) \/ IsCommentLine(l)

\* the text of a line between its first and last non-whitespace token
Content(l) ==
    LET ix == {i \in 1..Len(l) : l[i] \notin Whitespace}
    IN  SubSeq(l, CHOOSE i \in ix : \A j \in ix : i <= j,
                  CHOOSE i \in ix : \A j \in ix : i >= j)

RECURSIVE Significant(_)
Significant(f) ==
    IF f = <<>> THEN <<>>
    ELSE (IF Ignored(Head(f)) THEN <<>> ELSE <<Content(Head(f))>>)
         \o Significant(Tail(f))

\* the complete records: consecutive triples of significant lines
Records(f) ==
    LET sig == Significant(f)
    IN  [k \in 1..(Len(sig) \div 3) |->
            [task |-> sig[3 * k - 2], start |-> sig[3 * k - 1], end |-> sig[3 * k]]]

IsStamp(s) == \E d \in DateFields, t \in TimeFields : s = Stamp(d, t)

RecordParses(r) == IsStamp(r.start) /\ IsStamp(r.end)

Parses(f) == LET recs == Records(f) IN \A k \in 1..Len(recs) : RecordParses(recs[k])

EndDate(r) == DateOf[r.end[1]]

\* how many records of the task end on the date
RecordCount(f, task, date) ==
    LET recs == Records(f)
    IN  Cardinality({k \in 1..Len(recs) :
                        recs[k].task = task /\ EndDate(recs[k]) = date})

Loaded == {"print_tasks", "longest", "last_days", "time_summary", "done"}

\* what a finished run of report has computed
StateResult ==
    IF pc = "raised" THEN Failure
    ELSE [err         |-> FALSE,
          allTasks    |-> all_tasks,
          todayTasks  |-> today_tasks,
          totalToday  |-> total_today,
          grandTotal  |-> total,
          longest     |-> <<longest_name, longest_time>>,
          last6Days   |-> day_work]

ReportLines(o) == {i \in 1..Len(o) : o[i].kind # "warning"}

----------------------------------------------------------------------------
(* C1: day_work has keys only in 0..5: a group whose end date is more than *)
(* 5 days before today, or after today, adds to no bucket.                 *)
C1_DayWorkKeysWithin0To5 ==
    pc \in {"time_summary", "done"} => DOMAIN day_work \subseteq 0..5

(* C2: each entry (task, c) of today_tasks has c = the number of records   *)
(* of that task ending today, and folding leaves the count and time of     *)
(* every DateTaskGroup as the loop over the records left them.             *)
C2_TodayTasksCountTodayOnly ==
    pc \in Loaded =>
        /\ \A i \in 1..Len(today_tasks) :
              today_tasks[i][2] = RecordCount(raw, today_tasks[i][1], today)
        /\ \A i \in 1..Len(pomos) :
              LET n == RecordCount(raw, pomos[i].key[1], pomos[i].key[2])
              IN  heap[pomos[i].ref] = [nr |-> n, time |-> n * TASK_DURATION]

\* the first group of a task is today's, and the task has records of other days
C2_Witness ==
    /\ pc = "done"
    /\ \E i \in 1..Len(today_tasks), j \in 1..Len(all_tasks) :
          /\ today_tasks[i][1] = all_tasks[j][1]
          /\ today_tasks[i][2] < all_tasks[j][2]
          /\ \A k \in 1..Len(pomos) :
                pomos[k].key[1] = all_tasks[j][1] /\ pomos[k].key[2] # today
                    => k > IndexOf(pomos, <<all_tasks[j][1], today>>)


(* C3: with 3n+1 or 3n+2 significant lines report computes what it         *)
(* computes for the first 3n of them alone; the trailing lines are never   *)
(* read as timestamps, so they cause no failure.                           *)
C3_TruncationDropsPartialRecord ==
    pc \in {"done", "raised"} =>
        LET sig == Significant(raw)
        IN  StateResult = Report(SubSeq(sig, 1, 3 * (Len(sig) \div 3)),
                                 TASK_DURATION, today)

\* two trailing lines, the last of them no timestamp, after a complete record
C3_Witness ==
    LET sig == Significant(raw)
    IN  /\ pc = "done"
        /\ Len(sig) % 3 = 2
        /\ Len(sig) > 3
        /\ ~IsStamp(sig[Len(sig)])
        /\ all_tasks # <<>>

(* C4: longest is the join_tasks entry of greatest time, the first of them *)
(* in insertion order when several have it; when no entry has a time above *)
(* zero it is the sentinel name with duration 0.                           *)
C4_LongestIsFirstMaximum ==
    pc \in {"last_days", "time_summary", "done"} =>
        LET time(i) == heap[join_tasks[i].ref].time
            n == Len(join_tasks)
        IN  IF \A i \in 1..n : time(i) <= 0
            THEN longest_name = NoTask /\ longest_time = 0
            ELSE \E i \in 1..n :
                    /\ longest_name = join_tasks[i].key
                    /\ longest_time = time(i)
                    /\ \A j \in 1..n : time(j) <= time(i)
                    /\ \A j \in 1..(i - 1) : time(j) < time(i)

\* two tasks tie for the greatest time and the first is reported
C4_Witness ==
    /\ pc = "done"
    /\ Len(join_tasks) = 2
    /\ heap[join_tasks[1].ref].time = heap[join_tasks[2].ref].time
    /\ longest_time > 0
    /\ longest_name = join_tasks[1].key

(* C5: a timestamp that does not parse, in any retained record, makes      *)
(* report raise; the records before it are read but no line of the report  *)
(* is ever printed, and the loop never gets past the bad record.           *)
C5_BadTimestampAbortsBeforeOutput ==
    LET recs == Records(raw)
        bad == {k \in 1..Len(recs) : ~RecordParses(recs[k])}
    IN  /\ bad # {} =>
              /\ pc \in {"idle", "filter", "truncate", "load", "raised"}
              /\ ReportLines(out) = {}
              /\ \A k \in bad : idx < k
        /\ pc = "raised" => bad # {}

\* the failure comes after a valid record has been counted
C5_Witness ==
    /\ pc = "raised"
    /\ idx >= 1
    /\ Len(pomos) >= 1
    /\ Len(Records(raw)) > idx + 1


\* the sum of the counts of a list of (task, count)
RECURSIVE TotalOf(_, _)
TotalOf(tasks, n) == IF n = 0 THEN 0 ELSE tasks[n][2] + TotalOf(tasks, n - 1)

EndingOn(f, date) ==
    LET recs == Records(f)
    IN  Cardinality({k \in 1..Len(recs) : EndDate(recs[k]) = date})

\* the total printed in the header of a section of print_tasks
HeaderTotals(o, text) ==
    {o[i].total : i \in {j \in 1..Len(o) : o[j].kind = "header" /\ o[j].text = text}}

(* C6: the counts of all_tasks sum to the number of records, which is the  *)
(* total in the "all tasks" header; the counts of today_tasks sum to the   *)
(* number of records ending today, the total in the "today's tasks" header.*)
C6_CountsSumToRecords ==
    pc \in {"longest", "last_days", "time_summary", "done"} =>
        /\ TotalOf(all_tasks, Len(all_tasks)) = Len(Records(raw))
        /\ HeaderTotals(out, "Summary: all tasks") = {Len(Records(raw))}
        /\ TotalOf(today_tasks, Len(today_tasks)) = EndingOn(raw, today)
        /\ HeaderTotals(out, "Summary: today's tasks") = {EndingOn(raw, today)}

\* records share a (task, date) group and groups share a task
C6_Witness ==
    /\ pc = "done"
    /\ Len(pomos) > Len(join_tasks)
    /\ Len(Records(raw)) > Len(pomos)
    /\ today_tasks # <<>>

(* C7: total_today = TASK_DURATION x the number of records ending today,   *)
(* hence TASK_DURATION x the sum of the today_tasks counts and             *)
(* TASK_DURATION x day_work[0] when day_work has the key 0.                *)
C7_TotalTodayIsTodaysRecords ==
    /\ pc \in Loaded =>
          /\ total_today = TASK_DURATION * EndingOn(raw, today)
          /\ total_today = TASK_DURATION * TotalOf(today_tasks, Len(today_tasks))
    /\ pc \in {"time_summary", "done"} /\ 0 \in DOMAIN day_work =>
          total_today = TASK_DURATION * day_work[0]

\* records end today, before today and after today
C7_Witness ==
    /\ pc = "done"
    /\ total_today # 0
    /\ 0 \in DOMAIN day_work
    /\ \E i, j \in 1..Len(Records(raw)) :
          /\ EndDate(Records(raw)[i]) < today
          /\ EndDate(Records(raw)[j]) > today

RECURSIVE TimeOfGroups(_, _, _)
TimeOfGroups(h, j, n) ==
    IF n = 0 THEN 0 ELSE h[j[n].ref].time + TimeOfGroups(h, j, n - 1)

(* C8: total is the sum of the times of the join_tasks entries, which is   *)
(* (number of records) x TASK_DURATION whatever the records' timestamps.   *)
C8_GrandTotalIsRecordsTimesDuration ==
    pc \in {"last_days", "time_summary", "done"} =>
        /\ total = TimeOfGroups(heap, join_tasks, Len(join_tasks))
        /\ total = Len(Records(raw)) * TASK_DURATION

\* two tasks, and a record that starts on another day than it ends
C8_Witness ==
    /\ pc = "done"
    /\ total # 0
    /\ Len(join_tasks) >= 2
    /\ \E k \in 1..Len(Records(raw)) :
          DateOf[Records(raw)[k].start[1]] # EndDate(Records(raw)[k])

\* task -> folded count and time, from an OrderedDict and its objects
Folded(h, j) == {<<j[i].key, h[j[i].ref]>> : i \in 1..Len(j)}

(* C9: once join_tasks is built, the folded count and time of every task   *)
(* are those that every other order of the same records gives.             *)
C9_FoldingIgnoresRecordOrder ==
    pc = "print_tasks" =>
        LET recs == Records(raw)
            triples == [k \in 1..Len(recs) |-> <<recs[k].task, recs[k].start, recs[k].end>>]
        IN  \A perm \in Permutations(1..Len(recs)) :
               LET ld == LoadFrom(LoadStart, [k \in 1..Len(recs) |-> triples[perm[k]]],
                                  1, TASK_DURATION, today)
                   jn == JoinAll(ld.heap, ld.pomos)
               IN  Folded(jn.heap, jn.join) = Folded(heap, join_tasks)

\* a task with more records on its first date than on a later one
C9_Witness ==
    /\ pc = "print_tasks"
    /\ \E i, j \in 1..Len(pomos) :
          /\ i < j
          /\ pomos[i].key[1] = pomos[j].key[1]
          /\ heap[pomos[i].ref].nr > heap[pomos[j].ref].nr

RECURSIVE WithoutIgnored(_)
WithoutIgnored(f) ==
    IF f = <<>> THEN <<>>
    ELSE (IF Ignored(Head(f)) THEN <<>> ELSE <<Head(f)>>) \o WithoutIgnored(Tail(f))

(* C10: blank lines and lines whose first non-whitespace character is '#'  *)
(* change nothing: report computes what it computes without them.          *)
C10_BlankAndCommentLinesIgnored ==
    pc \in {"done", "raised"} =>
        StateResult = Report(WithoutIgnored(raw), TASK_DURATION, today)

\* an indented comment and a blank line inside the three lines of a record
C10_Witness ==
    /\ pc = "done"
    /\ all_tasks # <<>>
    /\ \E i, j \in 2..Len(raw) :
          /\ i # j
          /\ IsCommentLine(raw[i]) /\ raw[i][1] \in Whitespace
          /\ IsBlankLine(raw[j])
          /\ Len(WithoutIgnored(SubSeq(raw, 1, i))) % 3 # 0
          /\ Len(WithoutIgnored(SubSeq(raw, 1, j))) % 3 # 0

----------------------------------------------------------------------------
(* The program as a whole *)

\* the headings of the sections written, in order
RECURSIVE Sections(_)
Sections(o) ==
    IF o = <<>> THEN <<>>
    ELSE (IF Head(o).kind \in {"header", "title"} THEN <<Head(o).text>> ELSE <<>>)
         \o Sections(Tail(o))

ReportSections ==
    <<"Summary: all tasks", "Summary: today's tasks", "Last 5 days", "Time summary">>

(* C11: with --analyse on a path that cannot be opened the program writes  *)
(* one error line naming the path and nothing of a report, and exits with  *)
(* a non-zero status; when the file opens and parses the report is written *)
(* and the program exits with status 0; with --analyse no timer session is *)
(* ever started.                                                           *)
C11_AnalyseReportsOrFails ==
    /\ args_analyse # None => started = 0 /\ ~alive /\ app_pc = "none"
    /\ (main_pc = "exited" /\ args_analyse \notin {None, LogPath}) =>
          /\ out = <<[kind |-> "cannot_load", path |-> args_analyse]>>
          /\ Len(exit_status) = 1 /\ exit_status[1] # 0
          /\ pc = "idle"
    /\ (main_pc = "exited" /\ args_analyse = LogPath /\ Parses(raw)) =>
          /\ pc = "done"
          /\ Sections(out) = ReportSections
          /\ exit_status = <<0>>

\* a log of two records analysed while a task is named on the command line too
C11_Witness ==
    /\ main_pc = "exited"
    /\ args_analyse = LogPath
    /\ args_message # None
    /\ Parses(raw)
    /\ Len(Records(raw)) >= 1
    /\ exit_status = <<0>>

\* the lines of the "Last 5 days" section
RECURSIVE DaysPrinted(_)
DaysPrinted(o) ==
    IF o = <<>> THEN <<>>
    ELSE (IF Head(o).kind = "day" THEN <<Head(o)>> ELSE <<>>) \o DaysPrinted(Tail(o))

\* the line of the day i days before td, when a record of f ends on it
DayLineOf(f, td, i) ==
    LET n == EndingOn(f, td - i)
    IN  IF n > 0 THEN <<[kind |-> "day", date |-> td - i, nr |-> n]>> ELSE <<>>

(* C12: the "Last 5 days" section has one line for each i from 5 down to 0 *)
(* with a session ending i days before today, oldest first, with the       *)
(* number of sessions ending that day: at most six lines, none with a zero,*)
(* none for a day more than 5 days ago or after today.                     *)
C12_LastDaysLines ==
    pc \in {"time_summary", "done"} =>
        /\ DaysPrinted(out) = DayLineOf(raw, today, 5) \o DayLineOf(raw, today, 4)
                              \o DayLineOf(raw, today, 3) \o DayLineOf(raw, today, 2)
                              \o DayLineOf(raw, today, 1) \o DayLineOf(raw, today, 0)
        /\ Len(DaysPrinted(out)) <= 6
        /\ \A i \in 1..Len(DaysPrinted(out)) : DaysPrinted(out)[i].nr > 0

\* sessions 5 days ago, today and after today: two lines, the older first
C12_Witness ==
    /\ pc = "done"
    /\ Len(DaysPrinted(out)) = 2
    /\ DaysPrinted(out)[1].date = today - 5
    /\ DaysPrinted(out)[2].date = today
    /\ EndingOn(raw, today + 1) > 0

(* C13: when nothing is left of the input after blank and comment lines are*)
(* dropped, report ends without error with all_tasks and today_tasks empty *)
(* (both headers show 0), day_work without entry, total_today and total 0, *)
(* and longest the sentinel with duration 0.                               *)
C13_EmptyInputGivesEmptyAggregates ==
    (pc \in {"raised", "done"} /\ Significant(raw) = <<>>) =>
        /\ pc # "raised"
        /\ pc = "done" =>
              /\ all_tasks = <<>>
              /\ today_tasks = <<>>
              /\ HeaderTotals(out, "Summary: all tasks") = {0}
              /\ HeaderTotals(out, "Summary: today's tasks") = {0}
              /\ day_work = <<>>
              /\ DaysPrinted(out) = <<>>
              /\ total_today = 0
              /\ total = 0
              /\ longest_name = "No task longer than 0 minutes"
              /\ longest_time = 0

\* three lines, indented comments and blank lines only
C13_Witness ==
    /\ pc = "done"
    /\ Len(raw) = 3
    /\ Significant(raw) = <<>>
    /\ \E i \in 1..3 : IsCommentLine(raw[i]) /\ raw[i][1] \in Whitespace
    /\ \E i \in 1..3 : IsBlankLine(raw[i])

\* the (task, end date) of a record
KeyOf(r) == <<r.task, EndDate(r)>>

(* C14: while the loop over the records runs, every group of pomos has     *)
(* nr >= 1 and time = nr * TASK_DURATION; a record changes only the group  *)
(* of its (task, end date), which is created with nr 1 when absent and has *)
(* its nr raised by exactly 1 otherwise, and no group is removed.          *)
C14_GroupsCountTheirRecords ==
    /\ [](pc = "load" =>
            \A i \in 1..Len(pomos) :
                /\ heap[pomos[i].ref].nr >= 1
                /\ heap[pomos[i].ref].time = heap[pomos[i].ref].nr * TASK_DURATION)
    /\ [][(pc = "load" /\ idx' = idx + 1) =>
            LET key == KeyOf(Records(raw)[idx'])
            IN  /\ \A i \in 1..Len(pomos) :
                      /\ i <= Len(pomos')
                      /\ pomos'[i].key = pomos[i].key
                      /\ pomos[i].key # key =>
                            heap'[pomos'[i].ref] = heap[pomos[i].ref]
                /\ IF HasKey(pomos, key)
                   THEN /\ Len(pomos') = Len(pomos)
                        /\ heap'[RefOf(pomos', key)].nr = heap[RefOf(pomos, key)].nr + 1
                   ELSE /\ Len(pomos') = Len(pomos) + 1
                        /\ pomos'[Len(pomos')].key = key
                        /\ heap'[pomos'[Len(pomos')].ref].nr = 1]_vars

\* three records read: two of one group, one of another
C14_Witness ==
    /\ pc = "load"
    /\ idx = 3
    /\ Len(pomos) = 2
    /\ heap[pomos[1].ref].nr = 2
    /\ heap[pomos[2].ref].nr = 1
    /\ TASK_DURATION # 0

(* C15: group(data, 3) has floor(L / 3) records for L lines, the k-th made *)
(* of the lines 3k-2, 3k-1, 3k (counted from 1) as task, start, end, in    *)
(* file order; of the lines kept each is in exactly one record, once.      *)
C15_GroupStrideThree ==
    pc \in {"truncate", "load"} =>
        LET g == group(data, 3)
            L == Len(data)
        IN  /\ Len(g) = L \div 3
            /\ \A k \in 1..Len(g) : g[k] = <<data[3 * k - 2], data[3 * k - 1], data[3 * k]>>
            /\ (pc = "load" /\ idx = 0) =>
                  LET recs == Records(raw)
                  IN  /\ Flatten(g) = data
                      /\ \A k \in 1..Len(g) :
                            g[k] = <<recs[k].task, recs[k].start, recs[k].end>>

\* three records, no two alike, about to be read
C15_Witness ==
    /\ pc = "load"
    /\ idx = 0
    /\ Len(group(data, 3)) = 3
    /\ \A j, k \in 1..3 : j # k => group(data, 3)[j] # group(data, 3)[k]
    /\ \A k \in 1..3 : Cardinality({group(data, 3)[k][i] : i \in 1..3}) = 3

----------------------------------------------------------------------------
(* The timer *)

\* launch_and_monitor has been called and has not returned
Monitoring == main_pc \in {"monitor", "get", "got"}

(* C16: every started task is logged exactly once: write_log runs only     *)
(* after launch_and_monitor has returned, the countdown process ended, and *)
(* finish_task is done, whether the countdown ended on the sentinel or on  *)
(* 'ABORT'; in continuous mode the sessions repeat as start, finish, log.  *)
C16_LogOncePerStartedTask ==
    /\ [](/\ (Monitoring \/ main_pc = "finish") =>
                finished = started - 1 /\ logged = started - 1
          /\ main_pc = "log" =>
                /\ finished = started /\ logged = started - 1
                /\ ~alive
          /\ main_pc \in {"args", "report", "main", "exited"} =>
                finished = started /\ logged = started)
    /\ [][/\ logged' # logged =>
                /\ logged' = logged + 1
                /\ main_pc = "log" /\ ~alive /\ finished = started
          /\ finished' # finished =>
                /\ finished' = finished + 1
                /\ main_pc = "finish" /\ ~alive /\ logged = finished
          /\ started' # started =>
                /\ started' = started + 1
                /\ finished = started /\ logged = started]_vars

\* continuous mode: the second session, ended by 'ABORT', is about to be logged
C16_Witness ==
    /\ main_pc = "log"
    /\ started = 2
    /\ logged = 1
    /\ squished >= 1

(* C17: launch_and_monitor returns only with the countdown process dead    *)
(* and msg_queue empty, and every 'ABORT' that squish put on msg_queue was *)
(* taken by the monitor before and followed by the 'Squish!' notification  *)
(* and terminate().                                                        *)
C17_EveryAbortHandledBeforeReturn ==
    main_pc \in {"finish", "log"} =>
        /\ ~alive
        /\ msg_pipe = <<>>
        /\ gets = puts
        /\ squished = puts

\* seconds of a label
Seconds(l) == l[1] * 3600 + l[2] * 60 + l[3]

\* the labels of n seconds, n-1 first
Labels(n) == [k \in 1..(IF n > 0 THEN n ELSE 0) |-> Label(n - k)]

(* C18: start_task puts the TASK_DURATION labels, TASK_DURATION - 1 first, *)
(* and then one sentinel on time_queue; the countdown shows each label     *)
(* once, in strictly decreasing order, and when it stops on the sentinel   *)
(* it has shown exactly the TASK_DURATION labels.                          *)
C18_EachLabelShownOnceInOrder ==
    (TASK_DURATION >= 0) =>
    /\ started > 0 =>
          LET full == Labels(TASK_DURATION) \o <<Sentinel>>
          IN  /\ \E k \in 0..Len(full) : time_queue = SubSeq(full, k + 1, Len(full))
              /\ (app_pc = "setup" \/ (app_pc = "consume" /\ shown = <<>>)) =>
                    Len(time_queue) >= Len(full) - 1
              /\ app_pc = "setup" => time_queue = full
    /\ \A i \in 1..Len(shown) :
          /\ \E k \in 1..Len(Labels(TASK_DURATION)) : shown[i] = Labels(TASK_DURATION)[k]
          /\ \A j \in 1..Len(shown) : i < j => Seconds(shown[i]) > Seconds(shown[j])
    /\ (app_pc = "ended" /\ puts = 0) => shown = Labels(TASK_DURATION)

====
